---- MODULE Spec2Model ----
(***************************************************************************)
(* A model of autodeps.py: several independent processes construct an      *)
(* Autodeps object (directory selection, lines 51-74) and then run         *)
(* update_if_needed (lines 151-172) for the same dependency hash.  Every   *)
(* file-system call of the code is one atomic step of the process making   *)
(* it; the file system (environment directories, staging directories,      *)
(* lock files and their inodes, tarballs) is the shared state.             *)
(*                                                                         *)
(* What the model fixes about the configuration:                           *)
(*  - whether 'submodule-update' is configured is left open: the call of   *)
(*    submodule_update (lines 253-261) returns, after its command          *)
(*    succeeded or was not run, or through its except clause; the log it   *)
(*    writes is not part of the environment's content;                     *)
(*  - requirements.txt lists one package, so pip_install_packages makes    *)
(*    one call_installer call;                                             *)
(*  - every candidate directory has the same last path component, so a     *)
(*    tarball packed from one (tar -C srcdir srcfile, line 295) extracts   *)
(*    into the selected one (tar -C dirname, line 221);                    *)
(*  - the random part of tmpdst (line 288) differs between processes.      *)
(* shutil.rmtree (line 196) is one step: it only ever runs on a directory  *)
(* without the completion marker (TwoHoldersOnlyWhenCompleted).            *)
(*                                                                         *)
(* A process whose request raised stays alive with its lock file open and  *)
(* locked ("raised": the caller of activate, lines 408-412, may catch the  *)
(* exception) until it ends (Exit); any running process may be killed.     *)
(*                                                                         *)
(* Three specifications: Spec (every call may fail, every process may be   *)
(* killed), SpecLive (no call raises, nothing is killed, every process     *)
(* keeps being scheduled) and SpecSelect (directory selection alone, from  *)
(* any disk).                                                              *)
(***************************************************************************)
EXTENDS Naturals, Sequences, FiniteSets

VARIABLES
    config,     \* the loaded configuration and the readings of the machine (static)
    venv,       \* venv[d]: content of the directory d, the final environment path
    build,      \* build[d]: content of d + '.build', the staging directory
    lockname,   \* lockname[d]: inode the name d + '.lock' refers to, 0 when no such file
    dst,        \* <archive_dir>/<deps_hash>.tar.gz
    tmpdst,     \* tmpdst[p]: <archive_dir>/<deps_hash>_<random>.tar.gz of process p
    pc,         \* pc[p]: the call process p is about to make
    virtualenv_dir, \* self.virtualenv_dir of p ("none" for None)
    idx,        \* position of p's current for loop
    lock_file,  \* self.lock_file of p: inode of the open file, 0 for None
    locked,     \* p holds the fcntl lock on the inode lock_file[p]
    route,      \* which branch of update_if_needed p took
    exc         \* where the exception that ended p's request was raised

vars == <<config, venv, build, lockname, dst, tmpdst, pc, virtualenv_dir, idx,
          lock_file, locked, route, exc>>

fsvars == <<venv, build, lockname, dst, tmpdst>>

(***************************************************************************)
(* Bounds and universes                                                    *)
(***************************************************************************)
NProcs == 3

Procs == 1..NProcs

\* the candidate directories a configuration may list ('venv-dir-search')
Dirs == {"a", "b"}

\* A directory is the set of names in it; "." is in it exactly when the
\* directory exists, so the absent directory is {} and the empty one {"."}.
NoDir == {}
EmptyDir == {"."}

\* A tarball: whether the file exists, who packed it (0: not one of the
\* modelled processes) and what it holds.
NoFile == [exists |-> FALSE, by |-> 0, files |-> {}]
Tarball(by, content) == [exists |-> TRUE, by |-> by, files |-> content]

\* What an environment holds: one name per step of update_unsafe that writes
\* into it, "partial" for what a failed or interrupted command left behind,
\* and the completion marker.
Steps == <<"venv", "revision", "requirements.txt", "packages", "relocatable">>
Completed == ".completed"
Partial == "partial"

StepFiles == {Steps[k] : k \in 1..Len(Steps)}

Files == StepFiles \cup {Partial, Completed}

\* A directory that holds everything a complete run of the pipeline produces.
FullyBuilt(content) == "." \in content /\ StepFiles \subseteq content

Exists(content) == "." \in content

HasCompleted(d) == Exists(venv[d]) /\ Completed \in venv[d]

\* [archive_dir] + list(config['venv-dir-search']): the places a tarball is
\* looked for.  Only the first is ever written by make_archive.
SearchDirs == <<"archive">> \o config.paths

\* config.get('venv-dir-required-gigabytes', 1.0)
RequiredGigabytes == 1

\* freespace_gb readings a configuration is tried with
Gigabytes == {1, 2}

(***************************************************************************)
(* Initial states: nothing has been provisioned yet.  The configuration,   *)
(* the free-space readings, the permissions and the tarballs that other    *)
(* machines left in the search directories are inputs.                     *)
(***************************************************************************)
Configs(pathlists) ==
    [paths : pathlists,
     freespace : [Dirs -> Gigabytes],
     creatable : [Dirs -> BOOLEAN],
     archive_writable : BOOLEAN,
     seeded : SUBSET Dirs]

InitFs ==
    /\ venv = [d \in Dirs |-> NoDir]
    /\ build = [d \in Dirs |-> NoDir]
    /\ lockname = [d \in Dirs |-> 0]
    /\ dst \in {NoFile, Tarball(0, StepFiles)}
    /\ tmpdst = [p \in Procs |-> NoFile]

InitProcs ==
    /\ pc = [p \in Procs |-> "idle"]
    /\ virtualenv_dir = [p \in Procs |-> "none"]
    /\ idx = [p \in Procs |-> 0]
    /\ lock_file = [p \in Procs |-> 0]
    /\ locked = [p \in Procs |-> FALSE]
    /\ route = [p \in Procs |-> "none"]
    /\ exc = [p \in Procs |-> "none"]

\* kwargs['user'] = getpass.getuser() (line 38) as it shows in a path: the
\* first process runs as one user, the others as another
UserDir(p) == IF p = 1 THEN "a" ELSE "b"

\* path.format(**kwargs), line 53: a template with the user placeholder names
\* a directory of the user, any other names itself
Expand(p, template) == IF template = "{user}" THEN UserDir(p) ELSE template

\* the directories some process's candidate list names under configuration c
Candidates(c) == {Expand(p, c.paths[i]) : p \in Procs, i \in 1..Len(c.paths)}

\* The configurations tried: one candidate directory, the two of them in
\* priority order, or one directory per user.  What no candidate list names
\* cannot matter and is fixed.
InitConfigs ==
    {c \in Configs({<<"a">>, <<"a", "b">>, <<"{user}">>}) :
        \A d \in Dirs :
            d \notin Candidates(c) =>
                /\ c.freespace[d] = 2 /\ c.creatable[d]
                /\ d \notin c.seeded}

\* how many processes are started: all of them on one candidate directory,
\* one less when there are two directories
Started(c) == IF Candidates(c) = {"a"} THEN NProcs ELSE NProcs - 1

\* a tarball that exists beforehand is in one place
Init ==
    /\ config \in InitConfigs
    /\ InitFs
    /\ dst.exists => config.seeded = {}
    /\ InitProcs

(***************************************************************************)
(* Helpers for one process's control state                                 *)
(***************************************************************************)
Goto(p, label) == pc' = [pc EXCEPT ![p] = label]

\* an exception leaves update_if_needed (or __init__): nothing is cleaned up,
\* self.lock_file stays open and locked
Raise(p) ==
    /\ pc' = [pc EXCEPT ![p] = "raised"]
    /\ exc' = [exc EXCEPT ![p] = pc[p]]

\* paths[...] of line 53 at the position of p's loop
Path(p) == Expand(p, config.paths[idx[p]])

procvars == <<virtualenv_dir, idx, lock_file, locked, route, exc>>

(***************************************************************************)
(* Autodeps.__init__, lines 51-74: the search for self.virtualenv_dir      *)
(***************************************************************************)
\* a process is started and reaches the first loop (line 54)
Construct(p) ==
    /\ pc[p] = "idle"
    /\ p <= Started(config)
    /\ IF Len(config.paths) > 0
       THEN /\ Goto(p, "exists_path")
            /\ idx' = [idx EXCEPT ![p] = 1]
            /\ exc' = exc
       ELSE /\ Raise(p)          \* assert self.virtualenv_dir is not None
            /\ idx' = idx
    /\ UNCHANGED <<config, fsvars, virtualenv_dir, lock_file, locked, route>>

\* self.virtualenv_dir = path; break; ... ; update_if_needed is entered
Select(p) ==
    /\ virtualenv_dir' = [virtualenv_dir EXCEPT ![p] = Path(p)]
    /\ idx' = [idx EXCEPT ![p] = 0]
    /\ Goto(p, "completed")

\* the first loop goes on to the next path, or ends without a choice and the
\* second loop starts (line 59-60)
NextExisting(p) ==
    /\ IF idx[p] < Len(config.paths)
       THEN /\ idx' = [idx EXCEPT ![p] = idx[p] + 1]
            /\ Goto(p, "exists_path")
       ELSE /\ idx' = [idx EXCEPT ![p] = 1]
            /\ Goto(p, "makedirs_path")
    /\ UNCHANGED virtualenv_dir

\* NextFree without the assert of line 73: the last candidate is taken when
\* none was chosen
NextFree_No_Assert(p) ==
    IF idx[p] < Len(config.paths)
    THEN /\ idx' = [idx EXCEPT ![p] = idx[p] + 1]
         /\ Goto(p, "makedirs_path")
         /\ UNCHANGED <<virtualenv_dir, exc>>
    ELSE /\ Select(p)
         /\ exc' = exc

\* the second loop goes on to the next path, or ends and the assert of line 73
\* fails
NextFree(p) ==
    IF idx[p] < Len(config.paths)
    THEN /\ idx' = [idx EXCEPT ![p] = idx[p] + 1]
         /\ Goto(p, "makedirs_path")
         /\ UNCHANGED <<virtualenv_dir, exc>>
    ELSE /\ Raise(p)
         /\ UNCHANGED <<virtualenv_dir, idx>>

\* line 55, os.path.exists(path)
ExistsPath(p) ==
    /\ pc[p] = "exists_path"
    /\ IF Exists(venv[Path(p)])
       THEN Select(p)
       ELSE /\ Goto(p, "exists_lock")
            /\ UNCHANGED <<virtualenv_dir, idx>>
    /\ UNCHANGED <<config, fsvars, lock_file, locked, route, exc>>

\* line 55, os.path.exists(path + '.lock')
ExistsLock(p) ==
    /\ pc[p] = "exists_lock"
    /\ IF lockname[Path(p)] # 0
       THEN Select(p)
       ELSE NextExisting(p)
    /\ UNCHANGED <<config, fsvars, lock_file, locked, route, exc>>

\* EnoughSpace with a threshold that a reading equal to it passes
EnoughSpace_Or_Equal(d) == config.freespace[d] >= RequiredGigabytes

\* freespace_gb(path) > threshold, line 61
EnoughSpace(d) == config.freespace[d] > RequiredGigabytes

\* lines 61-67: the free-space test and os.makedirs(path)
MakedirsPath(p) ==
    /\ pc[p] = "makedirs_path"
    /\ IF ~EnoughSpace(Path(p))
       THEN /\ NextFree(p)
            /\ venv' = venv
       ELSE IF ~Exists(venv[Path(p)]) /\ config.creatable[Path(p)]
       THEN /\ venv' = [venv EXCEPT ![Path(p)] = EmptyDir]
            /\ Select(p)
            /\ exc' = exc
       ELSE /\ Goto(p, "race_exists_path")      \* except OSError:
            /\ UNCHANGED <<venv, virtualenv_dir, idx, exc>>
    /\ UNCHANGED <<config, build, lockname, dst, tmpdst, lock_file, locked, route>>

\* line 68, os.path.exists(path) in the except clause
RaceExistsPath(p) ==
    /\ pc[p] = "race_exists_path"
    /\ IF Exists(venv[Path(p)])
       THEN Select(p)
       ELSE /\ Goto(p, "race_exists_lock")
            /\ UNCHANGED <<virtualenv_dir, idx>>
    /\ UNCHANGED <<config, fsvars, lock_file, locked, route, exc>>

\* line 68, os.path.exists(path + '.lock') in the except clause
RaceExistsLock(p) ==
    /\ pc[p] = "race_exists_lock"
    /\ IF lockname[Path(p)] # 0
       THEN Select(p) /\ exc' = exc
       ELSE NextFree(p)
    /\ UNCHANGED <<config, fsvars, lock_file, locked, route>>

(***************************************************************************)
(* Autodeps.update_if_needed, lines 151-172, with lock_venv_dir and        *)
(* unlock_venv_dir                                                         *)
(***************************************************************************)
Dir(p) == virtualenv_dir[p]

\* CheckCompleted without the test of line 156: every request takes the lock
CheckCompleted_Always_Lock(p) ==
    /\ pc[p] = "completed"
    /\ Goto(p, "open")
    /\ UNCHANGED <<config, fsvars, procvars>>

\* line 156: the marker test made without the lock (venv_lastest_symlink, line
\* 155, touches only the 'latest' link)
CheckCompleted(p) ==
    /\ pc[p] = "completed"
    /\ IF HasCompleted(Dir(p))
       THEN /\ Goto(p, "done")
            /\ route' = [route EXCEPT ![p] = "fast"]
       ELSE /\ Goto(p, "open")
            /\ route' = route
    /\ UNCHANGED <<config, fsvars, virtualenv_dir, idx, lock_file, locked, exc>>

\* the inode open(self.lockfilename, 'a') yields: the one the name refers to,
\* or a new one (named after the process that creates it)
OpenedInode(p) == IF lockname[Dir(p)] # 0 THEN lockname[Dir(p)] ELSE p

\* line 242: self.lock_file = open(self.lockfilename, 'a')
LockOpen(p) ==
    /\ pc[p] = "open"
    /\ IF lockname[Dir(p)] = 0 /\ ~config.creatable[Dir(p)]
       THEN /\ Raise(p)                       \* IOError: cannot create the file
            /\ UNCHANGED <<lockname, lock_file>>
       ELSE /\ lockname' = [lockname EXCEPT ![Dir(p)] = OpenedInode(p)]
            /\ lock_file' = [lock_file EXCEPT ![p] = OpenedInode(p)]
            /\ Goto(p, "lockf")
            /\ exc' = exc
    /\ UNCHANGED <<config, venv, build, dst, tmpdst, virtualenv_dir, idx, locked, route>>

\* LockAvailable of a lock that excludes nobody
LockAvailable_Never_Blocks(p) == TRUE

\* fcntl.lockf grants an exclusive lock on an inode that no other process has
\* locked; otherwise the caller blocks
LockAvailable(p) ==
    \A q \in Procs \ {p} : ~(locked[q] /\ lock_file[q] = lock_file[p])

\* line 243: fcntl.lockf(self.lock_file, fcntl.LOCK_EX) returns
LockAcquire(p) ==
    /\ pc[p] = "lockf"
    /\ LockAvailable(p)
    /\ locked' = [locked EXCEPT ![p] = TRUE]
    /\ Goto(p, "recheck")
    /\ UNCHANGED <<config, fsvars, virtualenv_dir, idx, lock_file, route, exc>>

\* RecheckCompleted of a request that writes the marker whether it is there
\* or not
RecheckCompleted_Rewrites(p) ==
    /\ pc[p] = "recheck"
    /\ IF HasCompleted(Dir(p))
       THEN /\ Goto(p, "write_completed")
            /\ route' = [route EXCEPT ![p] = "recheck"]
            /\ idx' = idx
       ELSE /\ Goto(p, "tar_exists")
            /\ idx' = [idx EXCEPT ![p] = 1]
            /\ route' = route
    /\ UNCHANGED <<config, fsvars, virtualenv_dir, lock_file, locked, exc>>

\* line 161: the marker test made with the lock
RecheckCompleted(p) ==
    /\ pc[p] = "recheck"
    /\ IF HasCompleted(Dir(p))
       THEN /\ Goto(p, "unlock")
            /\ route' = [route EXCEPT ![p] = "recheck"]
            /\ idx' = idx
       ELSE /\ Goto(p, "tar_exists")
            /\ idx' = [idx EXCEPT ![p] = 1]
            /\ route' = route
    /\ UNCHANGED <<config, fsvars, virtualenv_dir, lock_file, locked, exc>>

\* line 165: the marker is written
WriteCompleted(p) ==
    /\ pc[p] = "write_completed"
    /\ IF Exists(venv[Dir(p)])
       THEN /\ venv' = [venv EXCEPT ![Dir(p)] = @ \cup {Completed}]
            /\ Goto(p, "unlock")
            /\ exc' = exc
       ELSE /\ Raise(p)                       \* IOError: no such directory
            /\ venv' = venv
    /\ UNCHANGED <<config, build, lockname, dst, tmpdst, virtualenv_dir, idx,
                   lock_file, locked, route>>

\* Unlock of an unlock_venv_dir that neither unlocks nor closes the file
Unlock_No_Release(p) ==
    /\ pc[p] = "unlock"
    /\ Goto(p, "unlink")
    /\ UNCHANGED <<config, fsvars, procvars>>

\* lines 249-251: unlock_venv_dir
Unlock(p) ==
    /\ pc[p] = "unlock"
    /\ locked' = [locked EXCEPT ![p] = FALSE]
    /\ lock_file' = [lock_file EXCEPT ![p] = 0]
    /\ Goto(p, "unlink")
    /\ UNCHANGED <<config, fsvars, virtualenv_dir, idx, route, exc>>

\* lines 168-172: os.unlink(self.lockfilename), OSError ignored; return
UnlinkLock(p) ==
    /\ pc[p] = "unlink"
    /\ lockname' = [lockname EXCEPT ![Dir(p)] = 0]
    /\ Goto(p, "done")
    /\ UNCHANGED <<config, venv, build, dst, tmpdst, procvars>>

(***************************************************************************)
(* Autodeps.search_for_precompiled_archive, lines 205-225                  *)
(***************************************************************************)
\* the tarball <search_dir>/<deps_hash>.tar.gz as the file system holds it
TarfileIn(search_dir) ==
    IF search_dir = "archive" THEN dst
    ELSE IF search_dir \in config.seeded THEN Tarball(0, StepFiles)
    ELSE NoFile

\* what a successful 'tar -xzf' leaves in a directory: it exists, and every
\* member of the tarball replaces what was there under that name (a member
\* cut short by an earlier failed extraction included)
Extracted(content, tarball) == ((content \ {Partial}) \cup {"."}) \cup tarball.files

\* line 213: os.path.exists(tarfile) for the next search directory; the loop
\* ends with return False and update_unsafe is entered (line 164)
TarExists(p) ==
    /\ pc[p] = "tar_exists"
    /\ IF TarfileIn(SearchDirs[idx[p]]).exists
       THEN /\ Goto(p, "extract")
            /\ route' = [route EXCEPT ![p] = "restore"]
            /\ idx' = idx
       ELSE IF idx[p] < Len(SearchDirs)
       THEN /\ idx' = [idx EXCEPT ![p] = idx[p] + 1]
            /\ Goto(p, "tar_exists")
            /\ route' = route
       ELSE /\ idx' = [idx EXCEPT ![p] = 0]
            /\ Goto(p, "mkdirs")
            /\ route' = [route EXCEPT ![p] = "build"]
    /\ UNCHANGED <<config, fsvars, virtualenv_dir, lock_file, locked, exc>>

\* Extract of a restore that takes a failed extraction for a finished one (the
\* exception of line 373 swallowed)
Extract_Ignore_Failure(p) ==
    /\ pc[p] = "extract"
    /\ venv' \in {[venv EXCEPT ![Dir(p)] =
                      Extracted(@, TarfileIn(SearchDirs[idx[p]]))],
                 [venv EXCEPT ![Dir(p)] = @ \cup {".", Partial}]}
    /\ Goto(p, "submodule_update")
    /\ UNCHANGED <<config, build, lockname, dst, tmpdst, procvars>>

\* lines 219-222: call_installer runs tar on the tarball; exit status 0 goes
\* on to submodule_update (line 223), any other raises at line 373 with the
\* directory as the command left it
Extract(p) ==
    /\ pc[p] = "extract"
    /\ \/ /\ TarfileIn(SearchDirs[idx[p]]).exists
          /\ venv' = [venv EXCEPT ![Dir(p)] =
                         Extracted(@, TarfileIn(SearchDirs[idx[p]]))]
          /\ Goto(p, "submodule_update")
          /\ exc' = exc
       \/ /\ venv' \in {venv, [venv EXCEPT ![Dir(p)] = @ \cup {".", Partial}]}
          /\ Raise(p)
    /\ UNCHANGED <<config, build, lockname, dst, tmpdst, virtualenv_dir, idx,
                   lock_file, locked, route>>

(***************************************************************************)
(* Autodeps.update_unsafe, lines 174-203, with mkdirs and call_installer   *)
(***************************************************************************)
\* line 231: os.path.exists of the staging directory
Mkdirs(p) ==
    /\ pc[p] = "mkdirs"
    /\ IF Exists(build[Dir(p)])
       THEN Goto(p, "submodule_update")
       ELSE Goto(p, "makedirs")
    /\ UNCHANGED <<config, fsvars, procvars>>

\* lines 232-235: os.makedirs of the staging directory, any error ignored
Makedirs(p) ==
    /\ pc[p] = "makedirs"
    /\ build' = [build EXCEPT ![Dir(p)] =
                    IF ~Exists(@) /\ config.creatable[Dir(p)] THEN EmptyDir ELSE @]
    /\ Goto(p, "submodule_update")
    /\ UNCHANGED <<config, venv, lockname, dst, tmpdst, procvars>>

\* what follows the call of submodule_update: return True and the marker write
\* in the restore (lines 223-224, 165), create_virtualenv in the build (line 189)
AfterSubmodule(p) ==
    IF route[p] = "restore" THEN "write_completed" ELSE "create_virtualenv"

\* lines 254-259: nothing is configured or the command succeeds, and the call
\* returns; or call_installer raises and the except clause is entered
SubmoduleUpdate(p) ==
    /\ pc[p] = "submodule_update"
    /\ \/ Goto(p, AfterSubmodule(p))
       \/ Goto(p, "submodule_except")
    /\ UNCHANGED <<config, fsvars, procvars>>

\* SubmoduleExcept of a submodule_update that lets the exception through
SubmoduleExcept_Raises(p) ==
    /\ pc[p] = "submodule_except"
    /\ Raise(p)
    /\ UNCHANGED <<config, fsvars, virtualenv_dir, idx, lock_file, locked, route>>

\* lines 260-261: except: pass
SubmoduleExcept(p) ==
    /\ pc[p] = "submodule_except"
    /\ Goto(p, AfterSubmodule(p))
    /\ UNCHANGED <<config, fsvars, procvars>>

\* One command of the pipeline, run by call_installer with its log file in the
\* staging directory (self.virtualenv_dir is the final path with '.build'
\* appended between lines 185 and 201): opening the log raises when the directory is missing
\* (line 346); exit status 0 leaves the command's output there, any other
\* leaves a partial output and raises (line 373).
call_installer(p, file, next) ==
    IF ~Exists(build[Dir(p)])
    THEN /\ Raise(p)
         /\ UNCHANGED <<venv, build>>
    ELSE \/ /\ build' = [build EXCEPT ![Dir(p)] = @ \cup {file}]
            /\ Goto(p, next)
            /\ UNCHANGED <<venv, exc>>
         \/ /\ build' = [build EXCEPT ![Dir(p)] = @ \cup {Partial}]
            /\ Raise(p)
            /\ venv' = venv

pipevars == <<config, lockname, dst, tmpdst, virtualenv_dir, idx,
              lock_file, locked, route>>

\* line 189
create_virtualenv(p) ==
    /\ pc[p] = "create_virtualenv"
    /\ call_installer(p, Steps[1], "tag_revision")
    /\ UNCHANGED pipevars

\* line 190
tag_revision(p) ==
    /\ pc[p] = "tag_revision"
    /\ call_installer(p, Steps[2], "requirements")
    /\ UNCHANGED pipevars

\* lines 191-192: the manifest is written, which fails only when the staging
\* directory is missing
WriteRequirements(p) ==
    /\ pc[p] = "requirements"
    /\ IF Exists(build[Dir(p)])
       THEN /\ build' = [build EXCEPT ![Dir(p)] = @ \cup {Steps[3]}]
            /\ Goto(p, "pip_install_packages")
            /\ exc' = exc
       ELSE /\ Raise(p)
            /\ build' = build
    /\ UNCHANGED <<venv, pipevars>>

\* line 193: the installs of the requirements (one package)
pip_install_packages(p) ==
    /\ pc[p] = "pip_install_packages"
    /\ call_installer(p, Steps[4], "venv_relocatable")
    /\ UNCHANGED pipevars

\* line 194
venv_relocatable(p) ==
    /\ pc[p] = "venv_relocatable"
    /\ call_installer(p, Steps[5], "rmtree")
    /\ UNCHANGED pipevars

\* lines 195-199: shutil.rmtree(old_venv_dir), ENOENT ignored
Rmtree(p) ==
    /\ pc[p] = "rmtree"
    /\ venv' = [venv EXCEPT ![Dir(p)] = NoDir]
    /\ Goto(p, "rename")
    /\ UNCHANGED <<config, build, lockname, dst, tmpdst, procvars>>

\* line 200: os.rename(staging, final) fails when the staging directory is
\* missing or the final path is a directory that is not empty
Rename(p) ==
    /\ pc[p] = "rename"
    /\ IF Exists(build[Dir(p)]) /\ venv[Dir(p)] \in {NoDir, EmptyDir}
       THEN /\ venv' = [venv EXCEPT ![Dir(p)] = build[Dir(p)]]
            /\ build' = [build EXCEPT ![Dir(p)] = NoDir]
            /\ Goto(p, "access")
            /\ exc' = exc
       ELSE /\ Raise(p)
            /\ UNCHANGED <<venv, build>>
    /\ UNCHANGED <<config, lockname, dst, tmpdst, virtualenv_dir, idx,
                   lock_file, locked, route>>

(***************************************************************************)
(* Autodeps.make_archive, lines 281-299                                    *)
(***************************************************************************)
\* line 285: os.access(self.archive_dir, os.W_OK)
Access(p) ==
    /\ pc[p] = "access"
    /\ IF config.archive_writable
       THEN Goto(p, "dst_exists")
       ELSE Goto(p, "write_completed")
    /\ UNCHANGED <<config, fsvars, procvars>>

\* line 291: os.path.exists(dst)
DstExists(p) ==
    /\ pc[p] = "dst_exists"
    /\ IF dst.exists
       THEN Goto(p, "write_completed")
       ELSE Goto(p, "tar")
    /\ UNCHANGED <<config, fsvars, procvars>>

\* Tar of a make_archive that takes a failed packing for a finished one
Tar_Ignore_Failure(p) ==
    /\ pc[p] = "tar"
    /\ IF ~Exists(venv[Dir(p)])
       THEN /\ Raise(p)
            /\ tmpdst' = tmpdst
       ELSE /\ tmpdst' \in {[tmpdst EXCEPT ![p] = Tarball(p, venv[Dir(p)] \ {"."})],
                            [tmpdst EXCEPT ![p] = Tarball(p, {Partial})]}
            /\ Goto(p, "rename_tar")
            /\ exc' = exc
    /\ UNCHANGED <<config, venv, build, lockname, dst, virtualenv_dir, idx,
                   lock_file, locked, route>>

\* lines 294-297: call_installer packs the final directory into tmpdst, its log
\* file inside the final directory; a failed tar leaves a cut-off tmpdst
Tar(p) ==
    /\ pc[p] = "tar"
    /\ IF ~Exists(venv[Dir(p)])
       THEN /\ Raise(p)
            /\ tmpdst' = tmpdst
       ELSE \/ /\ tmpdst' = [tmpdst EXCEPT ![p] = Tarball(p, venv[Dir(p)] \ {"."})]
               /\ Goto(p, "rename_tar")
               /\ exc' = exc
            \/ /\ tmpdst' = [tmpdst EXCEPT ![p] = Tarball(p, {Partial})]
               /\ Raise(p)
    /\ UNCHANGED <<config, venv, build, lockname, dst, virtualenv_dir, idx,
                   lock_file, locked, route>>

\* lines 298-299: os.chmod(tmpdst, ...) and os.rename(tmpdst, dst), which
\* replaces dst when it exists
RenameTar(p) ==
    /\ pc[p] = "rename_tar"
    /\ dst' = tmpdst[p]
    /\ tmpdst' = [tmpdst EXCEPT ![p] = NoFile]
    /\ Goto(p, "write_completed")
    /\ UNCHANGED <<config, venv, build, lockname, procvars>>

(***************************************************************************)
(* The end of a process                                                    *)
(***************************************************************************)
\* The process ends: the operating system closes its descriptors, which
\* releases its fcntl locks, and what the object held in memory is gone.
Reclaim(p) ==
    /\ Goto(p, "exited")
    /\ lock_file' = [lock_file EXCEPT ![p] = 0]
    /\ locked' = [locked EXCEPT ![p] = FALSE]
    /\ virtualenv_dir' = [virtualenv_dir EXCEPT ![p] = "none"]
    /\ idx' = [idx EXCEPT ![p] = 0]
    /\ route' = [route EXCEPT ![p] = "none"]
    /\ exc' = [exc EXCEPT ![p] = "none"]

\* the exception was not caught by the caller (main, line 397): the process ends
Exit(p) ==
    /\ pc[p] = "raised"
    /\ Reclaim(p)
    /\ UNCHANGED <<config, fsvars>>

Running(p) == pc[p] \notin {"idle", "done", "raised", "exited"}

\* the process is killed between two of its calls
Kill(p) ==
    /\ Running(p)
    /\ Reclaim(p)
    /\ UNCHANGED <<config, fsvars>>

(***************************************************************************)
(* Specifications                                                          *)
(***************************************************************************)
Step(p) ==
    \/ Construct(p)
    \/ ExistsPath(p)
    \/ ExistsLock(p)
    \/ MakedirsPath(p)
    \/ RaceExistsPath(p)
    \/ RaceExistsLock(p)
    \/ CheckCompleted(p)
    \/ LockOpen(p)
    \/ LockAcquire(p)
    \/ RecheckCompleted(p)
    \/ TarExists(p)
    \/ Extract(p)
    \/ Mkdirs(p)
    \/ Makedirs(p)
    \/ SubmoduleUpdate(p)
    \/ SubmoduleExcept(p)
    \/ create_virtualenv(p)
    \/ tag_revision(p)
    \/ WriteRequirements(p)
    \/ pip_install_packages(p)
    \/ venv_relocatable(p)
    \/ Rmtree(p)
    \/ Rename(p)
    \/ Access(p)
    \/ DstExists(p)
    \/ Tar(p)
    \/ RenameTar(p)
    \/ WriteCompleted(p)
    \/ Unlock(p)
    \/ UnlinkLock(p)
    \/ Exit(p)

Next == \E p \in Procs : Step(p) \/ Kill(p)

Spec == Init /\ [][Next]_vars

(***************************************************************************)
(* Runs in which no call raises and no process is killed, every process    *)
(* that can take a step eventually taking one: the operating system keeps  *)
(* scheduling a runnable process, and fcntl.lockf returns once the inode   *)
(* stays unlocked.                                                         *)
(***************************************************************************)
\* the call of p does not raise
Returns(p) == pc'[p] # "raised"

StepLive(p) ==
    \/ Construct(p) /\ Returns(p)
    \/ ExistsPath(p) /\ Returns(p)
    \/ ExistsLock(p) /\ Returns(p)
    \/ MakedirsPath(p) /\ Returns(p)
    \/ RaceExistsPath(p) /\ Returns(p)
    \/ RaceExistsLock(p) /\ Returns(p)
    \/ CheckCompleted(p) /\ Returns(p)
    \/ LockOpen(p) /\ Returns(p)
    \/ LockAcquire(p) /\ Returns(p)
    \/ RecheckCompleted(p) /\ Returns(p)
    \/ TarExists(p) /\ Returns(p)
    \/ Extract(p) /\ Returns(p)
    \/ Mkdirs(p) /\ Returns(p)
    \/ Makedirs(p) /\ Returns(p)
    \/ SubmoduleUpdate(p) /\ Returns(p)
    \/ SubmoduleExcept(p) /\ Returns(p)
    \/ create_virtualenv(p) /\ Returns(p)
    \/ tag_revision(p) /\ Returns(p)
    \/ WriteRequirements(p) /\ Returns(p)
    \/ pip_install_packages(p) /\ Returns(p)
    \/ venv_relocatable(p) /\ Returns(p)
    \/ Rmtree(p) /\ Returns(p)
    \/ Rename(p) /\ Returns(p)
    \/ Access(p) /\ Returns(p)
    \/ DstExists(p) /\ Returns(p)
    \/ Tar(p) /\ Returns(p)
    \/ RenameTar(p) /\ Returns(p)
    \/ WriteCompleted(p) /\ Returns(p)
    \/ Unlock(p) /\ Returns(p)
    \/ UnlinkLock(p) /\ Returns(p)

NextLive == \E p \in Procs : StepLive(p)

SpecLive == Init /\ [][NextLive]_vars /\ \A p \in Procs : WF_vars(StepLive(p))

(***************************************************************************)
(* Directory selection alone, from any disk: which candidates and which    *)
(* lock files exist when the processes start is an input, and the          *)
(* processes run the search of lines 51-74 and nothing else.               *)
(***************************************************************************)
SelectConfigs ==
    [paths : {<<"a">>, <<"a", "b">>, <<"b", "a">>},
     freespace : [Dirs -> Gigabytes],
     creatable : [Dirs -> BOOLEAN],
     archive_writable : {TRUE},
     seeded : {{}},
     existing : SUBSET Dirs,
     locks : SUBSET Dirs]

\* a lock file that is there beforehand is some other process's inode
InitSelect ==
    /\ config \in SelectConfigs
    /\ venv = [d \in Dirs |-> IF d \in config.existing THEN EmptyDir ELSE NoDir]
    /\ build = [d \in Dirs |-> NoDir]
    /\ lockname = [d \in Dirs |-> IF d \in config.locks THEN NProcs ELSE 0]
    /\ dst = NoFile
    /\ tmpdst = [p \in Procs |-> NoFile]
    /\ InitProcs

NextSelect ==
    \E p \in Procs :
        \/ Construct(p)
        \/ ExistsPath(p)
        \/ ExistsLock(p)
        \/ MakedirsPath(p)
        \/ RaceExistsPath(p)
        \/ RaceExistsLock(p)

SpecSelect == InitSelect /\ [][NextSelect]_vars

(***************************************************************************)
(* Properties                                                              *)
(***************************************************************************)
\* the processes between a successful lock_venv_dir and unlock_venv_dir on d
LockedOn(d) == {p \in Procs : locked[p] /\ Dir(p) = d}

\* the calls of search_for_precompiled_archive, update_unsafe and make_archive
RestorePcs == {"tar_exists", "extract"}
PipelinePcs == {"mkdirs", "makedirs", "submodule_update", "submodule_except",
                "create_virtualenv", "tag_revision",
                "requirements", "pip_install_packages", "venv_relocatable"}
PublishPcs == {"rmtree", "rename"}
ArchivePcs == {"access", "dst_exists", "tar", "rename_tar"}
BuildPcs == PipelinePcs \cup PublishPcs \cup ArchivePcs

\* the processes that are building or restoring d
WorkingOn(d) == {p \in Procs : pc[p] \in RestorePcs \cup BuildPcs /\ Dir(p) = d}

\* C1: for every environment path at most one process at a time is between a
\* successful lock_venv_dir and its unlock_venv_dir.
C1_AtMostOneLocked == \A d \in Dirs : Cardinality(LockedOn(d)) <= 1

\* C2: for every environment path at most one process at a time is executing
\* search_for_precompiled_archive or update_unsafe.
C2_AtMostOneWorking == \A d \in Dirs : Cardinality(WorkingOn(d)) <= 1

\* Why deleting the lock file does not break C2 although it breaks C1: two
\* processes hold a lock for the same path only once the marker is there, so
\* both leave at line 161; and rmtree never runs on a marked directory.
TwoHoldersOnlyWhenCompleted ==
    \A d \in Dirs :
        /\ Cardinality(LockedOn(d)) >= 2 => HasCompleted(d)
        /\ \A p \in WorkingOn(d) : ~HasCompleted(d)

\* C2 witness: a process is inside update_unsafe while a second one is blocked
\* in lockf on the same lock file and a third has not opened it yet
C2_Witness ==
    \E p, q, r \in Procs :
        /\ pc[p] \in BuildPcs /\ locked[p]
        /\ pc[q] = "lockf" /\ lock_file[q] = lock_file[p] /\ Dir(q) = Dir(p)
        /\ pc[r] = "open" /\ Dir(r) = Dir(p)

\* the requests that returned, and the branch each took
Returned == {p \in Procs : pc[p] = "done"}

Took(r) == {p \in Returned : route[p] = r}

\* no tarball of this identity existed before the modelled processes ran
NeverArchived == config.seeded = {} /\ (dst.exists => dst.by # 0)

\* every process either was never started or returned normally (so no command
\* failed and nothing was killed), and at least two returned
ConcurrentRequestsReturned ==
    /\ \A p \in Procs : pc[p] \in {"idle", "done"}
    /\ Cardinality(Returned) >= 2

\* every process expands the configured templates to the same candidate list
SameCandidateList ==
    \A p, q \in Procs, i \in 1..Len(config.paths) :
        Expand(p, config.paths[i]) = Expand(q, config.paths[i])

\* C3: when two or more concurrent requests for a never-built identity have
\* all returned without a failure, exactly one of them ran update_unsafe and
\* wrote the marker; every other one returned through the marker test of line
\* 156 or through the one of line 161, without restoring or building.
C3_ExactlyOneBuild ==
    (ConcurrentRequestsReturned /\ NeverArchived /\ SameCandidateList) =>
        /\ Cardinality(Took("build")) = 1
        /\ Took("restore") = {}
        /\ Returned \ Took("build") = Took("fast") \cup Took("recheck")

\* What does hold: of the requests that returned from one path at most one
\* restored or built it and wrote its marker.  With two candidate directories
\* the selection of lines 51-72 can send two requests to different paths (the
\* tests of line 68 straddle the rmtree/rename of lines 195-200 and the unlink
\* of line 169), and then each path is provisioned once.
OneMarkerWritePerPath ==
    \A d \in Dirs :
        Cardinality({p \in Returned : Dir(p) = d /\ route[p] \in {"build", "restore"}}) <= 1

\* all requests returned, one built, one came back through the test after the
\* lock and one through the test before it
OneBuildReached ==
    /\ ConcurrentRequestsReturned /\ NeverArchived /\ SameCandidateList
    /\ Took("build") # {} /\ Took("recheck") # {} /\ Took("fast") # {}

\* C4: a request that finds the marker at line 156 returns at once: its only
\* step leaves every directory, lock file and tarball as it was and opens no
\* lock file; the marker it is about to find is not taken away before it
\* looks; and a request that returned this way does nothing afterwards.
C4_FastPathTouchesNothing ==
    [][\A p \in Procs :
         /\ (pc[p] = "completed" /\ HasCompleted(Dir(p))) =>
               /\ \E d \in Dirs : d = Dir(p) /\ HasCompleted(d)'
               /\ pc'[p] # pc[p] =>
                     /\ pc'[p] \in {"done", "exited"}
                     /\ lock_file'[p] = 0 /\ ~locked'[p]
                     /\ fsvars' = fsvars
         /\ (pc[p] = "done" /\ route[p] = "fast") =>
               /\ pc'[p] = "done" /\ route'[p] = "fast"
               /\ lock_file'[p] = 0 /\ ~locked'[p]]_vars

\* C4 witness: a request returned on the fast path
C4_Witness == \E p \in Procs : pc[p] = "done" /\ route[p] = "fast"

\* C5: a request that ended with an exception raised by a command of the
\* restore or of the build no longer holds the lock.
C5_FailureReleasesLock ==
    \A p \in Procs :
        (pc[p] = "raised" /\ exc[p] \in {"extract"} \cup BuildPcs) =>
            (~locked[p] /\ lock_file[p] = 0)

\* the commands of update_unsafe whose failure is fatal
MandatoryPcs == {"create_virtualenv", "tag_revision", "pip_install_packages",
                 "venv_relocatable"}

\* the request of p ended with the exception of a failed mandatory command
BuildFailed(p) == pc[p] = "raised" /\ exc[p] \in MandatoryPcs

\* C6: after a build in which a mandatory step failed the final environment
\* path is absent.
C6_FailedBuildFinalAbsent ==
    \A p \in Procs : BuildFailed(p) => ~Exists(venv[Dir(p)])

\* What does hold of a failed build: no step of update_unsafe before rmtree,
\* the failing one included, changes any final path; when the step fails the
\* path holds no marker, and the partial result is in the staging directory.
FailedBuildFinalUntouched ==
    [][\A p \in Procs, d \in Dirs :
         /\ (pc[p] \in PipelinePcs /\ pc'[p] # pc[p]) => venv' = venv
         /\ (d = Dir(p) /\ pc[p] \in MandatoryPcs /\ pc'[p] = "raised") =>
               /\ ~HasCompleted(d)'
               /\ Exists(build'[d]) /\ Partial \in build'[d]]_vars

\* a package install failed after the environment was created in staging, and
\* the final path is the empty directory of directory selection
FailedBuildReached ==
    \E p \in Procs :
        /\ BuildFailed(p) /\ exc[p] = "pip_install_packages"
        /\ venv[Dir(p)] = EmptyDir
        /\ Steps[1] \in build[Dir(p)]

\* C7: every final environment directory is fully built or absent.
C7_FinalFullOrAbsent ==
    \A d \in Dirs : ~Exists(venv[d]) \/ FullyBuilt(venv[d])

C10_PublishNeverSurfaces ==
    \A p \in Procs : pc[p] = "raised" => exc[p] \notin ArchivePcs

\* C11: once <deps_hash>.tar.gz exists in the archive directory no step
\* replaces or changes it; the first publisher's tarball stays.
C11_FirstPublisherWins == [][dst.exists => dst' = dst]_vars

\* two processes that built at different paths are both past the test of line
\* 291 with their own tarball packed, and none is published yet
TwoPublishersReached ==
    \E p, q \in Procs :
        /\ p # q /\ Dir(p) # Dir(q)
        /\ pc[p] = "rename_tar" /\ pc[q] = "rename_tar"
        /\ ~dst.exists

\* the process whose step this is
Acts(p) == pc'[p] # pc[p]

\* C12: every step that changes an environment directory is taken by a
\* process that holds the lock for that path when it takes the step.
C12_MutationsUnderLock ==
    [][\A d \in Dirs :
         venv'[d] # venv[d] =>
             \E p \in Procs : Acts(p) /\ locked[p] /\ Dir(p) = d]_vars

\* What does hold: the only change made without the lock is the os.makedirs of
\* directory selection (line 64), which creates the directory empty.
MutationsUnderLockButSelection ==
    [][\A d \in Dirs :
         venv'[d] # venv[d] =>
             \E p \in Procs :
                 /\ Acts(p)
                 /\ \/ locked[p] /\ Dir(p) = d
                    \/ /\ pc[p] = "makedirs_path" /\ Path(p) = d /\ ~locked[p]
                       /\ venv[d] = NoDir /\ venv'[d] = EmptyDir]_vars

\* the calls of the search for self.virtualenv_dir
SelectionPcs == {"exists_path", "exists_lock", "makedirs_path",
                 "race_exists_path", "race_exists_lock"}

\* no candidate of p both has free space above the threshold and can be created
NoViableDirectory(p) ==
    \A i \in 1..Len(config.paths) :
        ~(EnoughSpace(Expand(p, config.paths[i]))
            /\ config.creatable[Expand(p, config.paths[i])])

\* C13: a process none of whose candidates exists or is viable never gets past
\* directory selection: it selects nothing, opens and locks no lock file, and
\* once its search is over it has ended with the exception of line 73 (or was
\* killed); none of its candidates, their staging directories or lock files
\* is ever created.
C13_NoViableDirectoryIsFatal ==
    \A p \in Procs :
        NoViableDirectory(p) =>
            /\ pc[p] \in {"idle", "raised", "exited"} \cup SelectionPcs
            /\ pc[p] = "raised" => exc[p] \in {"makedirs_path", "race_exists_lock"}
            /\ virtualenv_dir[p] = "none" /\ route[p] = "none"
            /\ lock_file[p] = 0 /\ ~locked[p]
            /\ \A i \in 1..Len(config.paths) :
                   /\ venv[Expand(p, config.paths[i])] = NoDir
                   /\ build[Expand(p, config.paths[i])] = NoDir
                   /\ lockname[Expand(p, config.paths[i])] = 0

\* C13 witness: with two candidates, the first short of space and the second
\* not creatable, a process failed the assert after os.makedirs raised
C13_Witness ==
    \E p \in Procs :
        /\ Len(config.paths) = 2 /\ NoViableDirectory(p)
        /\ ~EnoughSpace(config.paths[1]) /\ EnoughSpace(config.paths[2])
        /\ pc[p] = "raised" /\ exc[p] = "race_exists_lock"

\* the least of a non-empty set of positions
First(S) == CHOOSE i \in S : \A j \in S : i <= j

\* the candidates that were there beforehand (directory or lock file), and
\* those with free space strictly above the threshold that can be created
ExistingAt(c) ==
    {i \in 1..Len(c.paths) : c.paths[i] \in c.existing \cup c.locks}

ViableAt(c) ==
    {i \in 1..Len(c.paths) :
        c.freespace[c.paths[i]] > RequiredGigabytes /\ c.creatable[c.paths[i]]}

\* the directory the claim says is selected ("none": selection fails)
Selected(c) ==
    IF ExistingAt(c) # {} THEN c.paths[First(ExistingAt(c))]
    ELSE IF ViableAt(c) # {} THEN c.paths[First(ViableAt(c))]
    ELSE "none"

\* C14: a process whose search is over selected the first candidate that was
\* there beforehand (directory or lock file), whatever its free space,
\* otherwise the first one with free space strictly above the threshold that
\* can be created, which then exists (created by it, or by a process that
\* raced it); it failed when there is neither.  No other directory is created.
C14_SelectionResult ==
    /\ \A p \in Procs :
           /\ pc[p] \notin {"idle"} \cup SelectionPcs =>
                 IF Selected(config) = "none"
                 THEN pc[p] = "raised"
                 ELSE /\ pc[p] = "completed"
                      /\ virtualenv_dir[p] = Selected(config)
                      /\ Exists(venv[Selected(config)])
                             \/ Selected(config) \in config.locks
    /\ \A d \in Dirs :
           Exists(venv[d]) =>
               \/ d \in config.existing
               \/ ExistingAt(config) = {} /\ d = Selected(config)

\* C14 witness: candidates [a, b], neither there, a short of space and b with
\* space: two processes selected b, b was created and a was not
C14_Witness ==
    /\ config.paths = <<"a", "b">>
    /\ config.existing = {} /\ config.locks = {}
    /\ ~EnoughSpace("a") /\ EnoughSpace("b")
    /\ \E p, q \in Procs :
           /\ p # q /\ pc[p] = "completed" /\ pc[q] = "completed"
           /\ virtualenv_dir[p] = "b" /\ virtualenv_dir[q] = "b"
    /\ venv["b"] = EmptyDir /\ venv["a"] = NoDir

\* the calls of update_unsafe in the order of lines 187-203
Pipeline ==
    <<"mkdirs", "makedirs", "submodule_update", "submodule_except",
      "create_virtualenv", "tag_revision", "requirements",
      "pip_install_packages", "venv_relocatable", "rmtree", "rename", "access">>

Position(label) == CHOOSE i \in 1..Len(Pipeline) : Pipeline[i] = label

\* the calls that are made only when needed: os.makedirs of a staging
\* directory that is missing, the except clause of submodule_update
OptionalPcs == {"makedirs", "submodule_except"}

\* the calls whose errors are swallowed
BestEffortPcs == {"mkdirs", "makedirs", "submodule_update", "submodule_except"}

\* what the step at a position leaves in the staging directory when it succeeds
Produces(label) ==
    CASE label = "create_virtualenv" -> {Steps[1]}
      [] label = "tag_revision" -> {Steps[2]}
      [] label = "requirements" -> {Steps[3]}
      [] label = "pip_install_packages" -> {Steps[4]}
      [] label = "venv_relocatable" -> {Steps[5]}
      [] OTHER -> {}

C16_FreshStaging ==
    \A p \in Procs :
        (route[p] = "build"
           /\ pc[p] \in {"submodule_update", "submodule_except", "create_virtualenv"}) =>
            build[Dir(p)] \subseteq {"."}

\* what an earlier attempt left in staging reached the final path: a request
\* that built returned, and the marked directory holds the cut-off output of
\* a command that failed in another request
StaleStagingPublished ==
    \E p \in Procs :
        /\ pc[p] = "done" /\ route[p] = "build"
        /\ HasCompleted(Dir(p)) /\ Partial \in venv[Dir(p)]

\* C17: the marker appears in a directory only by the write of line 165, made
\* by a process that holds the lock for the path; that write is reached only
\* from the end of a restore or of a build that did not raise; the writer
\* still holds the lock after it; a process releases its lock and deletes the
\* lock file only with the marker in place; and a process that finds the
\* marker at line 161 goes to the unlock without touching the directory.
C17_MarkerWrittenUnderLock ==
    [][\A p \in Procs, d \in Dirs :
         /\ (Completed \in venv'[d] /\ Completed \notin venv[d]) =>
               \E q \in Procs :
                   /\ Acts(q) /\ pc[q] = "write_completed" /\ Dir(q) = d
                   /\ locked[q] /\ lock_file[q] # 0
                   /\ pc'[q] = "unlock" /\ locked'[q]
         /\ (Acts(p) /\ pc'[p] = "write_completed") =>
               \/ /\ route[p] = "restore"
                  /\ pc[p] \in {"submodule_update", "submodule_except"}
               \/ /\ route[p] = "build"
                  /\ pc[p] \in {"access", "dst_exists", "rename_tar"}
         /\ (Acts(p) /\ pc[p] \in {"unlock", "unlink"} /\ d = Dir(p)) =>
               HasCompleted(d) /\ (pc[p] = "unlock" => locked[p])
         /\ (Acts(p) /\ pc[p] = "recheck" /\ d = Dir(p) /\ HasCompleted(d)) =>
               pc'[p] \in {"unlock", "exited"} /\ venv' = venv]_vars

\* C17 witness: a request that restored has written the marker and still
\* holds the lock on the lock file of its path
C17_Witness ==
    \E p \in Procs :
        /\ pc[p] = "unlock" /\ route[p] = "restore"
        /\ locked[p] /\ lock_file[p] = lockname[Dir(p)]
        /\ HasCompleted(Dir(p))

\* a tarball whose packing ran to its end holds every file of the environment
Complete(tarball) == tarball.exists /\ StepFiles \subseteq tarball.files

\* C18: <deps_hash>.tar.gz, when it exists, is a complete tarball; it changes
\* only by the rename of line 299, of a temporary file whose packing
\* succeeded; a step that fails to pack leaves it alone; and an extraction
\* that succeeds leaves every file of the environment in the directory.
C18_PublishedTarballComplete ==
    [][/\ dst.exists => Complete(dst)
       /\ dst'.exists => Complete(dst')
       /\ dst' # dst =>
             \E p \in Procs :
                 /\ Acts(p) /\ pc[p] = "rename_tar"
                 /\ Complete(tmpdst[p]) /\ dst' = tmpdst[p]
       /\ \A p \in Procs :
             /\ (Acts(p) /\ pc[p] = "tar" /\ pc'[p] = "raised") => dst' = dst
             /\ (Acts(p) /\ pc[p] = "extract" /\ pc'[p] = "submodule_update") =>
                   \E d \in Dirs : d = Dir(p) /\ FullyBuilt(venv'[d])]_vars

\* C18 witness: a process is about to extract the tarball that another one
\* published in the archive directory, while the cut-off temporary file of a
\* failed packing lies next to it
C18_Witness ==
    \E p, q \in Procs :
        /\ p # q
        /\ pc[p] = "extract" /\ SearchDirs[idx[p]] = "archive"
        /\ dst.exists /\ dst.by \notin {0, p}
        /\ tmpdst[q].exists /\ ~Complete(tmpdst[q])

\* C19: every request that entered update_if_needed eventually returns, and a
\* request that has returned finds the marker in its directory and holds no
\* lock.
C19_EveryRequestReturns ==
    \A p \in Procs :
        /\ (pc[p] = "completed") ~> (pc[p] = "done")
        /\ [](pc[p] = "done" =>
                 /\ HasCompleted(Dir(p))
                 /\ ~locked[p] /\ lock_file[p] = 0)

\* C19 witness: a process is blocked in lockf on a lock file that a request
\* which has returned deleted, while a third process's request is still open
C19_Witness ==
    \E p, q \in Procs :
        /\ pc[q] = "done" /\ Dir(p) = Dir(q)
        /\ pc[p] = "lockf" /\ lock_file[p] # lockname[Dir(p)]
        /\ \E r \in Procs \ {p, q} : locked[r] /\ lock_file[r] = lock_file[p]

\* C20: processes that expand the configuration to the same candidate list
\* never have two different directories selected.
C20_SameDirectorySelected ==
    SameCandidateList =>
        \A p, q \in Procs :
            (Dir(p) # "none" /\ Dir(q) # "none") => Dir(p) = Dir(q)

\* both candidate directories end up provisioned for the one identity
BothProvisioned ==
    SameCandidateList /\ \A d \in Dirs : HasCompleted(d)

====
